---- MODULE Spec2Model ----
(***************************************************************************)
(* Model of src/python/transcribe_youtube.py: get_transcript (the track    *)
(* selection and fallback chain) and the part of main that calls it and    *)
(* saves the transcription.                                                *)
(*                                                                         *)
(* Language codes and the resolved-language string are sequences of        *)
(* characters, so that str.startswith, string equality and the f-string    *)
(* of line 105 are computed, not assumed.                                  *)
(*                                                                         *)
(* The remote service (youtube_transcript_api) is the environment:         *)
(*   - list(video_id) returns any catalog or raises;                       *)
(*   - whether a track translates is an attribute of the track;            *)
(*   - fetch() is a network call that returns or raises at call time.      *)
(***************************************************************************)
EXTENDS Integers, Sequences, FiniteSets

VARIABLES pc, caller, argOk, videoIdOk, languages, listed, transcript_list, idx,
          ret, exc, fetchLog, translateLog, file, exitStatus

vars == <<pc, caller, argOk, videoIdOk, languages, listed, transcript_list, idx,
          ret, exc, fetchLog, translateLog, file, exitStatus>>

(* ---------------------------- bounds ----------------------------------- *)
MaxTracks == 3

(* ------------------------- language codes ------------------------------ *)
en == <<"e", "n">>
enUS == <<"e", "n", "-", "U", "S">>
enGB == <<"e", "n", "-", "G", "B">>
enAU == <<"e", "n", "-", "A", "U">>
es == <<"e", "s">>
fr == <<"f", "r">>

Langs == {en, enUS, enAU, es, fr}

DefaultLanguages == <<en, enUS, enGB>>

DirectLanguages == {<<en>>, <<es, en>>}

Tracks == [language_code : Langs, is_generated : BOOLEAN, is_translatable : BOOLEAN]

\* a track is identified by its language and origin: a catalog holds at most
\* one track for each
Catalogs ==
    {cat \in UNION {[1..n -> Tracks] : n \in 0..MaxTracks} :
        \A i, j \in DOMAIN cat :
            (/\ cat[i].language_code = cat[j].language_code
             /\ cat[i].is_generated = cat[j].is_generated) => i = j}

None == [none |-> TRUE]

(* --------------------------- pure helpers ------------------------------ *)
\* mutant of startswith: equality instead of a prefix test
startswithExact(s, p) == s = p

startswith(s, p) == Len(s) >= Len(p) /\ SubSeq(s, 1, Len(p)) = p

TranslatedPrefix ==
    <<"e", "n", " ", "(", "t", "r", "a", "n", "s", "l", "a", "t", "e", "d",
      " ", "f", "r", "o", "m", " ">>

\* mutant of TranslatedLabel: the original language code is left out
TranslatedLabelPlain(code) == TranslatedPrefix \o <<")">>

TranslatedLabel(code) == TranslatedPrefix \o code \o <<")">>

\* mutant of TypeOf: the two origins are swapped
TypeOfSwapped(t) == IF t.is_generated THEN "manual" ELSE "auto-generated"

TypeOf(t) == IF t.is_generated THEN "auto-generated" ELSE "manual"

Min(S) == CHOOSE m \in S : \A x \in S : m <= x

\* indexes of the tracks of cat with the given origin flag and language code
Matching(cat, gen, code) ==
    {k \in 1..Len(cat) : cat[k].is_generated = gen /\ cat[k].language_code = code}

\* positions of langs that have a track of the given origin
Hits(cat, gen, langs) == {j \in 1..Len(langs) : Matching(cat, gen, langs[j]) # {}}

\* TranscriptList.find_manually_created_transcript / find_generated_transcript:
\* 0 stands for NoTranscriptFound, otherwise the index of the track found
FindTranscript(cat, gen, langs) ==
    IF Hits(cat, gen, langs) = {} THEN 0
    ELSE Min(Matching(cat, gen, langs[Min(Hits(cat, gen, langs))]))

find_manually_created_transcript(cat, langs) == FindTranscript(cat, FALSE, langs)

find_generated_transcript(cat, langs) == FindTranscript(cat, TRUE, langs)

(* --------------------------- exceptions -------------------------------- *)
NoExc == [type |-> "none", msg |-> "none"]
RequestFailed == [type |-> "RequestFailed", msg |-> "request failed"]
StopIteration == [type |-> "StopIteration", msg |-> ""]
DisabledError == [type |-> "Exception", msg |-> "Transcripts are disabled for this video"]
UnavailableError == [type |-> "Exception", msg |-> "Video is unavailable"]
NotFoundError == [type |-> "Exception", msg |-> "No transcript found for this video"]

ListErrors == {"TranscriptsDisabled", "VideoUnavailable", "NoTranscriptFound", "RequestFailed"}

\* the except clauses of lines 114-119 applied to what list() raised
Handled(kind) ==
    CASE kind = "TranscriptsDisabled" -> DisabledError
      [] kind = "VideoUnavailable" -> UnavailableError
      [] kind = "NoTranscriptFound" -> NotFoundError
      [] OTHER -> RequestFailed

(* ------------------------------ Init ----------------------------------- *)
Init ==
    /\ \/ /\ caller = "main"
          /\ pc = "main"
          /\ languages = <<>>
          /\ argOk \in BOOLEAN
          /\ videoIdOk \in BOOLEAN
       \/ /\ caller = "direct"
          /\ pc = "gt_entry"
          /\ languages \in DirectLanguages
          /\ argOk = TRUE
          /\ videoIdOk = TRUE
    /\ listed = FALSE
    /\ transcript_list = <<>>
    /\ idx = 0
    /\ ret = None
    /\ exc = NoExc
    /\ fetchLog = <<>>
    /\ translateLog = <<>>
    /\ file = "absent"
    /\ exitStatus = -1

(* ------------------------- get_transcript ------------------------------ *)
Fetched(k, tr, where, good) == [track |-> k, translated |-> tr, at |-> where, ok |-> good]

Result(k, tr, lang, kind) ==
    [segments |-> [track |-> k, translated |-> tr], language_code |-> lang,
     transcript_type |-> kind]

\* lines 73-74; main (line 140) passes no languages, so the parameter is None
GtEntry ==
    /\ pc = "gt_entry"
    /\ languages' = IF caller = "main" THEN DefaultLanguages ELSE languages
    /\ pc' = "gt_list"
    /\ UNCHANGED <<caller, argOk, videoIdOk, listed, transcript_list, idx, ret, exc,
                   fetchLog, translateLog, file, exitStatus>>

\* line 81, with the handlers of lines 114-119 for what it raises
ListTracks ==
    /\ pc = "gt_list"
    /\ \/ /\ \E cat \in Catalogs : transcript_list' = cat
          /\ listed' = TRUE
          /\ pc' = "gt_manual"
          /\ exc' = exc
       \/ /\ \E kind \in ListErrors : exc' = Handled(kind)
          /\ pc' = "gt_done"
          /\ UNCHANGED <<listed, transcript_list>>
    /\ UNCHANGED <<caller, argOk, videoIdOk, languages, idx, ret, fetchLog,
                   translateLog, file, exitStatus>>

\* a direct fetch at step `where` of track k outside the loop's try block:
\* the result is returned, or the error leaves get_transcript
FetchOrRaise(k, where, kind) ==
    \E good \in BOOLEAN :
        /\ fetchLog' = Append(fetchLog, Fetched(k, FALSE, where, good))
        /\ IF good
             THEN /\ ret' = Result(k, FALSE, transcript_list[k].language_code, kind)
                  /\ exc' = exc
             ELSE /\ exc' = RequestFailed
                  /\ ret' = ret
        /\ pc' = "gt_done"

\* mutant of TryManual: the manual tracks are searched in catalog order
TryManualCatalogOrder ==
    /\ pc = "gt_manual"
    /\ LET found == {k \in DOMAIN transcript_list :
                       /\ ~transcript_list[k].is_generated
                       /\ \E j \in DOMAIN languages :
                            languages[j] = transcript_list[k].language_code} IN
         IF found = {}
           THEN /\ pc' = "gt_generated"
                /\ UNCHANGED <<ret, exc, fetchLog>>
           ELSE FetchOrRaise(Min(found), "manual", "manual")
    /\ UNCHANGED <<caller, argOk, videoIdOk, languages, listed, transcript_list, idx,
                   translateLog, file, exitStatus>>

\* lines 84-88
TryManual ==
    /\ pc = "gt_manual"
    /\ LET k == find_manually_created_transcript(transcript_list, languages) IN
         IF k = 0
           THEN /\ pc' = "gt_generated"
                /\ UNCHANGED <<ret, exc, fetchLog>>
           ELSE FetchOrRaise(k, "manual", "manual")
    /\ UNCHANGED <<caller, argOk, videoIdOk, languages, listed, transcript_list, idx,
                   translateLog, file, exitStatus>>

\* mutant of TryGenerated: a preferred code matches every code it is a prefix of
TryGeneratedPrefixMatch ==
    /\ pc = "gt_generated"
    /\ LET found == {k \in DOMAIN transcript_list :
                       /\ transcript_list[k].is_generated
                       /\ \E j \in DOMAIN languages :
                            startswith(transcript_list[k].language_code, languages[j])} IN
         IF found = {}
           THEN /\ pc' = "gt_loop"
                /\ idx' = 1
                /\ UNCHANGED <<ret, exc, fetchLog>>
           ELSE /\ FetchOrRaise(Min(found), "generated", "auto-generated")
                /\ idx' = idx
    /\ UNCHANGED <<caller, argOk, videoIdOk, languages, listed, transcript_list,
                   translateLog, file, exitStatus>>

\* lines 91-95
TryGenerated ==
    /\ pc = "gt_generated"
    /\ LET k == find_generated_transcript(transcript_list, languages) IN
         IF k = 0
           THEN /\ pc' = "gt_loop"
                /\ idx' = 1
                /\ UNCHANGED <<ret, exc, fetchLog>>
           ELSE /\ FetchOrRaise(k, "generated", "auto-generated")
                /\ idx' = idx
    /\ UNCHANGED <<caller, argOk, videoIdOk, languages, listed, transcript_list,
                   translateLog, file, exitStatus>>

\* mutant of LoopFetch: a fetched result does not end the scan
LoopFetchKeepScanning(k, tr, lang, kind) ==
    \E good \in BOOLEAN :
        /\ fetchLog' = Append(fetchLog, Fetched(k, tr, "loop", good))
        /\ ret' = IF good THEN Result(k, tr, lang, kind) ELSE ret
        /\ pc' = "gt_loop"
        /\ idx' = idx + 1

\* a fetch inside the try block of lines 99-107: the result is returned
\* (lines 102, 105), or the error is swallowed and the scan continues
\* (lines 106-107)
LoopFetch(k, tr, lang, kind) ==
    \E good \in BOOLEAN :
        /\ fetchLog' = Append(fetchLog, Fetched(k, tr, "loop", good))
        /\ IF good
             THEN /\ ret' = Result(k, tr, lang, kind)
                  /\ pc' = "gt_done"
                  /\ idx' = idx
             ELSE /\ ret' = ret
                  /\ pc' = "gt_loop"
                  /\ idx' = idx + 1

\* lines 98-107: one iteration of the for loop
LoopIter ==
    /\ pc = "gt_loop"
    /\ idx <= Len(transcript_list)
    /\ LET transcript == transcript_list[idx] IN
         IF startswith(transcript.language_code, en)
           THEN \* lines 100-102
                /\ translateLog' = translateLog
                /\ LoopFetch(idx, FALSE, transcript.language_code, TypeOf(transcript))
           ELSE \* lines 104-105
                /\ translateLog' =
                       Append(translateLog, [track |-> idx, ok |-> transcript.is_translatable])
                /\ IF transcript.is_translatable
                     THEN LoopFetch(idx, TRUE, TranslatedLabel(transcript.language_code),
                                    "translated")
                     ELSE \* translate raised: lines 106-107
                          /\ fetchLog' = fetchLog
                          /\ ret' = ret
                          /\ pc' = "gt_loop"
                          /\ idx' = idx + 1
    /\ UNCHANGED <<caller, argOk, videoIdOk, languages, listed, transcript_list, exc,
                   file, exitStatus>>

\* the for loop of line 98 is exhausted
LoopExit ==
    /\ pc = "gt_loop"
    /\ idx > Len(transcript_list)
    /\ pc' = "gt_last"
    /\ UNCHANGED <<caller, argOk, videoIdOk, languages, listed, transcript_list, idx, ret,
                   exc, fetchLog, translateLog, file, exitStatus>>

\* lines 110-112: next(iter(...)) raises StopIteration on an empty catalog,
\* which none of the handlers of lines 114-119 catches
LastResort ==
    /\ pc = "gt_last"
    /\ IF Len(transcript_list) = 0
         THEN /\ exc' = StopIteration
              /\ pc' = "gt_done"
              /\ UNCHANGED <<ret, fetchLog>>
         ELSE FetchOrRaise(1, "last", TypeOf(transcript_list[1]))
    /\ UNCHANGED <<caller, argOk, videoIdOk, languages, listed, transcript_list, idx,
                   translateLog, file, exitStatus>>

(* ------------------------------- main ---------------------------------- *)
\* lines 123-137
MainStart ==
    /\ pc = "main"
    /\ IF argOk /\ videoIdOk
         THEN /\ pc' = "gt_entry"
              /\ exitStatus' = exitStatus
         ELSE /\ pc' = "exit"
              /\ exitStatus' = 1
    /\ UNCHANGED <<caller, argOk, videoIdOk, languages, listed, transcript_list, idx, ret,
                   exc, fetchLog, translateLog, file>>

\* mutant of MainAfterGet: the error is reported but main goes on
MainAfterGetIgnoreError ==
    /\ pc = "gt_done"
    /\ caller = "main"
    /\ pc' = "main_output"
    /\ UNCHANGED <<caller, argOk, videoIdOk, languages, listed, transcript_list, idx,
                   ret, exc, fetchLog, translateLog, file, exitStatus>>

\* lines 139-143: get_transcript returns to main, or its error is caught
MainAfterGet ==
    /\ pc = "gt_done"
    /\ caller = "main"
    /\ IF exc # NoExc
         THEN /\ pc' = "exit"
              /\ exitStatus' = 1
         ELSE /\ pc' = "main_output"
              /\ exitStatus' = exitStatus
    /\ UNCHANGED <<caller, argOk, videoIdOk, languages, listed, transcript_list, idx, ret,
                   exc, fetchLog, translateLog, file>>

\* get_transcript returns to (or raises into) a caller other than main
DirectReturn ==
    /\ pc = "gt_done"
    /\ caller = "direct"
    /\ pc' = "returned"
    /\ UNCHANGED <<caller, argOk, videoIdOk, languages, listed, transcript_list, idx, ret,
                   exc, fetchLog, translateLog, file, exitStatus>>

\* lines 145-169: the transcription is printed
MainOutput ==
    /\ pc = "main_output"
    /\ pc' = "main_save"
    /\ UNCHANGED <<caller, argOk, videoIdOk, languages, listed, transcript_list, idx, ret,
                   exc, fetchLog, translateLog, file, exitStatus>>

\* lines 171-194: the file is written, or mkdir/open/write raises OSError,
\* which nothing catches
MainSave ==
    /\ pc = "main_save"
    /\ \/ /\ file' = "written"
          /\ exitStatus' = 0
       \/ /\ file' \in {"absent", "partial"}
          /\ exitStatus' = 1
    /\ pc' = "exit"
    /\ UNCHANGED <<caller, argOk, videoIdOk, languages, listed, transcript_list, idx, ret,
                   exc, fetchLog, translateLog>>

Next ==
    \/ GtEntry
    \/ ListTracks
    \/ TryManual
    \/ TryGenerated
    \/ LoopIter
    \/ LoopExit
    \/ LastResort
    \/ MainStart
    \/ MainAfterGet
    \/ DirectReturn
    \/ MainOutput
    \/ MainSave

Spec == Init /\ [][Next]_vars

(* ===================== properties of get_transcript ==================== *)
Cat == transcript_list

\* get_transcript has finished (returned or raised) on a catalog that list() returned
GtDone == listed /\ pc \in {"gt_done", "returned", "main_output", "main_save", "exit"}

NoFetchRaised == \A j \in DOMAIN fetchLog : fetchLog[j].ok

InLanguages(code) == \E j \in DOMAIN languages : languages[j] = code

\* some track of the given origin has its language code in the preference list
HasPreferred(gen) ==
    \E k \in DOMAIN Cat : Cat[k].is_generated = gen /\ InLanguages(Cat[k].language_code)

HasTrack(gen, code) ==
    \E k \in DOMAIN Cat : Cat[k].is_generated = gen /\ Cat[k].language_code = code

\* the first language of the preference list that has a track of the given origin
FirstPreferredLanguage(gen) ==
    languages[CHOOSE j \in DOMAIN languages :
                 /\ HasTrack(gen, languages[j])
                 /\ \A i \in 1..(j - 1) : ~HasTrack(gen, languages[i])]

IsEnglish(k) ==
    /\ Len(Cat[k].language_code) >= 2
    /\ Cat[k].language_code[1] = "e"
    /\ Cat[k].language_code[2] = "n"

HasEnglish == \E k \in DOMAIN Cat : IsEnglish(k)

FirstEnglish == CHOOSE k \in DOMAIN Cat : IsEnglish(k) /\ \A i \in 1..(k - 1) : ~IsEnglish(i)

HasTranslatable == \E k \in DOMAIN Cat : Cat[k].is_translatable

FirstTranslatable ==
    CHOOSE k \in DOMAIN Cat :
        Cat[k].is_translatable /\ \A i \in 1..(k - 1) : ~Cat[i].is_translatable

NoPreferred == ~HasPreferred(FALSE) /\ ~HasPreferred(TRUE)

Untranslated(k) ==
    [segments |-> [track |-> k, translated |-> FALSE],
     language_code |-> Cat[k].language_code,
     transcript_type |-> IF Cat[k].is_generated THEN "auto-generated" ELSE "manual"]

\* C1: whenever the catalog holds a manual track in a preferred language (and
\* the fetch of the selected track returns), the result is manual and its
\* language is the first preferred language, in preference order, that has a
\* manual track, whatever auto-generated tracks the catalog holds.
C1_ManualPreferred ==
    (GtDone /\ HasPreferred(FALSE) /\ NoFetchRaised) =>
        /\ ret # None
        /\ ret.transcript_type = "manual"
        /\ ret.language_code = FirstPreferredLanguage(FALSE)

\* a manual result in a language that comes later in the catalog than another
\* preferred manual track and than an auto-generated preferred track
C1_Witness ==
    /\ GtDone /\ HasPreferred(FALSE) /\ ret # None
    /\ ret.transcript_type = "manual"
    /\ \E k \in 1..(ret.segments.track - 1) :
         /\ ~Cat[k].is_generated
         /\ InLanguages(Cat[k].language_code)
         /\ Cat[k].language_code # ret.language_code
    /\ \E k \in 1..(ret.segments.track - 1) :
         Cat[k].is_generated /\ InLanguages(Cat[k].language_code)

\* C2: with no preferred manual or auto-generated track, the first track in
\* catalog order whose code starts with "en" is returned untranslated, even
\* when translatable tracks of other languages precede it.
C2_FirstEnglishWins ==
    (GtDone /\ NoPreferred /\ HasEnglish /\ NoFetchRaised) =>
        ret = Untranslated(FirstEnglish)

\* C3: an empty catalog makes get_transcript fail with the
\* "No transcript found for this video" error and no other.
C3_EmptyCatalogNotFound ==
    (GtDone /\ Cat = <<>>) => exc = NotFoundError

\* C4: with no preferred track and no track starting with "en", if some track
\* translates, the result is translated from the first track in catalog order
\* whose translation does not fail; each earlier track was tried and skipped.
C4_FirstTranslatable ==
    (GtDone /\ NoPreferred /\ ~HasEnglish /\ HasTranslatable /\ NoFetchRaised) =>
        /\ exc = NoExc
        /\ ret # None
        /\ ret.transcript_type = "translated"
        /\ ret.segments = [track |-> FirstTranslatable, translated |-> TRUE]
        /\ ret.language_code =
             <<"e", "n", " ", "(", "t", "r", "a", "n", "s", "l", "a", "t", "e", "d",
               " ", "f", "r", "o", "m", " ">>
             \o Cat[FirstTranslatable].language_code \o <<")">>
        /\ Len(translateLog) = FirstTranslatable
        /\ \A k \in 1..(FirstTranslatable - 1) :
             translateLog[k] = [track |-> k, ok |-> FALSE]

\* a translated result taken from a track behind one whose translation raised
C4_Witness ==
    /\ GtDone /\ NoPreferred /\ ~HasEnglish /\ NoFetchRaised
    /\ ret # None
    /\ ret.transcript_type = "translated"
    /\ ret.segments.track >= 2
    /\ ~Cat[1].is_translatable

\* C5: a non-empty catalog with no preferred track, no track starting with
\* "en" and no track that translates still yields a result: the first track
\* of the catalog, untranslated, typed by its own is_generated flag.
C5_LastResort ==
    (GtDone /\ Cat # <<>> /\ NoPreferred /\ ~HasEnglish /\ ~HasTranslatable
        /\ NoFetchRaised) =>
        /\ exc = NoExc
        /\ ret = Untranslated(1)

\* the last resort returned an auto-generated first track of a longer catalog
C5_Witness ==
    /\ GtDone /\ Len(Cat) >= 2 /\ NoPreferred /\ ~HasEnglish /\ ~HasTranslatable
    /\ ret # None
    /\ ret.transcript_type = "auto-generated"
    /\ ret.segments.track = 1
    /\ ~Cat[2].is_generated

\* C6: with no preferred manual track but a preferred auto-generated one, the
\* result is auto-generated in the first preferred language that has an
\* auto-generated track; steps 1-2 match codes by exact equality only.
C6_AutoPreferred ==
    /\ (GtDone /\ ~HasPreferred(FALSE) /\ HasPreferred(TRUE) /\ NoFetchRaised) =>
          /\ ret # None
          /\ ret.transcript_type = "auto-generated"
          /\ ret.language_code = FirstPreferredLanguage(TRUE)
    /\ \A j \in DOMAIN fetchLog :
          fetchLog[j].at \in {"manual", "generated"} =>
              InLanguages(Cat[fetchLog[j].track].language_code)

\* languages = ["en"]: the auto-generated "en" track is returned although an
\* auto-generated "en-US" track precedes it in the catalog
C6_Witness ==
    /\ GtDone /\ ~HasPreferred(FALSE) /\ ret # None
    /\ languages = << <<"e", "n">> >>
    /\ ret.transcript_type = "auto-generated"
    /\ ret.segments.track >= 2
    /\ Cat[1].is_generated
    /\ Cat[1].language_code = <<"e", "n", "-", "U", "S">>

\* C7 (as claimed): fetch is invoked at most once in the whole run, on the
\* track whose segments are returned, also when a fetch raises in the scan.
C7_FetchAtMostOnce ==
    /\ Len(fetchLog) <= 1
    /\ ret # None =>
         /\ Len(fetchLog) = 1
         /\ fetchLog[1].ok
         /\ fetchLog[1].track = ret.segments.track
         /\ fetchLog[1].translated = ret.segments.translated

\* C7 (amended): segments are retrieved only for the chosen track: at most one
\* fetch returns, it is the last fetch of the run and it is on the (translated)
\* track whose segments are returned; every other fetch raised inside the
\* catalog scan.
C7_OnlyChosenRetrieved ==
    /\ \A j \in 1..(Len(fetchLog) - 1) : ~fetchLog[j].ok /\ fetchLog[j].at = "loop"
    /\ ret # None =>
         /\ fetchLog # <<>>
         /\ fetchLog[Len(fetchLog)].ok
         /\ fetchLog[Len(fetchLog)].track = ret.segments.track
         /\ fetchLog[Len(fetchLog)].translated = ret.segments.translated
    /\ ret = None => \A j \in DOMAIN fetchLog : ~fetchLog[j].ok

\* a result returned after a fetch of another track raised in the scan
C7_Witness ==
    /\ ret # None
    /\ Len(fetchLog) >= 2
    /\ fetchLog[1].track # ret.segments.track

\* C8: when get_transcript raises, main exits with a non-zero status and the
\* transcription file is never created; the save step is reached only with a
\* returned result.
C8_NoFileOnFailure ==
    /\ exc # NoExc => file = "absent" /\ pc \notin {"main_output", "main_save"}
    /\ (exc # NoExc /\ pc = "exit") => exitStatus # 0
    /\ (pc = "main_save" \/ file # "absent") => ret # None /\ exc = NoExc

\* main has exited after get_transcript raised
C8_Witness ==
    /\ caller = "main"
    /\ pc = "exit"
    /\ exc # NoExc
    /\ exitStatus = 1
    /\ file = "absent"

\* C9: no translate call is made unless steps 1-2 found nothing and the scan
\* for a code starting with "en" went over the whole catalog and found none.
C9_TranslateAfterEnglishScan ==
    translateLog # <<>> => NoPreferred /\ ~HasEnglish

\* C10: a returned result describes a catalog track: a manual or
\* auto-generated result carries the code of a track with that origin; a
\* translated result is labelled "en (translated from L)" with L the code of
\* a track that does not start with "en", and no such track is translated.
C10_ResultConsistent ==
    /\ ret # None =>
         \/ /\ ret.transcript_type = "manual"
            /\ HasTrack(FALSE, ret.language_code)
         \/ /\ ret.transcript_type = "auto-generated"
            /\ HasTrack(TRUE, ret.language_code)
         \/ /\ ret.transcript_type = "translated"
            /\ \E k \in DOMAIN Cat :
                 /\ ~IsEnglish(k)
                 /\ ret.language_code =
                      <<"e", "n", " ", "(", "t", "r", "a", "n", "s", "l", "a", "t",
                        "e", "d", " ", "f", "r", "o", "m", " ">>
                      \o Cat[k].language_code \o <<")">>
    /\ \A j \in DOMAIN translateLog : ~IsEnglish(translateLog[j].track)

\* a translated result from a catalog that also holds a translatable track
\* whose code starts with "en", whose fetch raised
C10_Witness ==
    /\ ret # None
    /\ ret.transcript_type = "translated"
    /\ \E k \in DOMAIN Cat : IsEnglish(k) /\ Cat[k].is_translatable

====
